---- MODULE Spec2Model ----
(***************************************************************************)
(* Batch diff orchestration of main_portable.cc: the todo queue built by   *)
(* BatchDiff, the DifferThread worker loop, the staged SIGINT handler, the *)
(* output file name builder GetTruncatedFilename, and BinDiffMain with the *)
(* sink chains of a batch job and of a single diff.                        *)
(***************************************************************************)
EXTENDS Integers, Sequences, FiniteSets, TLC

\* Bounds of the model.
MaxFiles == 3
MaxThreads == 2

VARIABLES
    \* BatchDiff
    binexports,           \* std::vector<std::string> binexports
    full_reference_file,  \* "" or the full path of the reference file
    num_threads,          \* config /bindiff/threads/@use
    flag_export,          \* FLAGS_export
    files,                \* DiffPairList files: the todo queue
    num_diffed,           \* int num_diffed = files.size()
    mpc,                  \* position of BatchDiff
    started,              \* threads emplaced so far
    joined,               \* threads joined so far
    reports,              \* the "N pairs diffed" messages printed, in order
    \* process-wide state
    g_queue_mutex,        \* 0: free, w: held by worker w
    g_wants_to_quit,
    signal_count,         \* static int of SignalHandler
    exited,               \* exit(1) was called
    \* DifferThread, per worker
    wpc,
    file1, file2,         \* the iteration's locals
    last_file1, last_file2,
    slot1, slot2,         \* the program held by call_graph1/flow_graphs1 (resp. 2), "" if none
    instruction_cache,    \* the files Read() has put instructions of in the cache
    did1, did2,           \* what the iteration did to each side: "none", "read", "reset"
    result,               \* how the worker's last finished iteration ended
    \* history
    seeded,               \* the queue as BatchDiff seeded it
    popped,               \* the pairs pop_front() removed from the queue, in order
    pops_after_quit,      \* per worker, its pops since g_wants_to_quit was set
    taken,                \* the pairs the workers left the critical section with, in order
    prev,                 \* per worker, the pair of its previous iteration
    \* GetTruncatedFilename
    name_call,            \* the arguments of a call
    name_ret,             \* its outcome: not called yet, returned (a string) or thrown
    \* BinDiffMain and main
    FLAGS,                \* the command line's flags
    positional,           \* the command line's positional arguments
    output_dir,           \* FLAGS_output_dir once BinDiffMain runs
    g_output_binary,
    g_output_log,
    primary, secondary,   \* the locals of lines 649-650
    fs,                   \* what the file system answered about the paths
    bpc,                  \* position of BinDiffMain
    status,               \* the absl::Status BinDiffMain returned
    exit_status,          \* what main returned
    effects,              \* the calls made that load, list, diff or write, in order
    call_graph1, call_graph2,  \* whether the unique_ptr holds a call graph
    done_something,
    names,                \* the output path and the two call graphs' file names
    writer,               \* the ChainWriter's sinks, in order
    writes,               \* the chains Write() was called on, in order
    console               \* the messages printed about results, in order

bvars == <<binexports, full_reference_file, num_threads, flag_export, files,
           num_diffed, mpc, started, joined, reports, seeded>>
gvars == <<g_queue_mutex, g_wants_to_quit, signal_count, exited>>
wvars == <<wpc, file1, file2, last_file1, last_file2, slot1, slot2,
           instruction_cache, did1, did2, result, popped, taken, pops_after_quit, prev>>
mvars == <<FLAGS, positional, output_dir, g_output_binary, g_output_log,
           primary, secondary, fs, bpc, status, exit_status, effects,
           call_graph1, call_graph2, done_something, names, writer, writes,
           console>>
nvars == <<name_call, name_ret, mvars>>
vars == <<bvars, gvars, wvars, nvars>>

Workers == 1..MaxThreads

FileName(i) == "f" \o ToString(i)

full_path == "dir"

JoinPath(p, f) == p \o "/" \o f

\* The directory listings the model draws: K distinct exported programs.
Listing(k) == [i \in 1..k |-> FileName(i)]

\* The reference arguments the model draws: none, an entry, or a file that is
\* not in the directory.
References == {""} \cup {JoinPath(full_path, FileName(i)) : i \in 1..(MaxFiles + 1)}

----------------------------------------------------------------------------
\* BatchDiff: the todo list of file pairs.

\* Mutant of KeepPair: the self-pair is not skipped.
KeepPairWithSelf(bx, ref, it, jt) ==
    ref = "" \/ ref = JoinPath(full_path, bx[it])

KeepPair(bx, ref, it, jt) ==
    /\ it # jt
    /\ (ref = "" \/ ref = JoinPath(full_path, bx[it]))

RECURSIVE InnerLoop(_, _, _, _)
InnerLoop(bx, ref, it, jt) ==
    IF jt > Len(bx) THEN <<>>
    ELSE (IF KeepPair(bx, ref, it, jt) THEN << <<bx[it], bx[jt]>> >> ELSE <<>>)
         \o InnerLoop(bx, ref, it, jt + 1)

RECURSIVE OuterLoop(_, _, _)
OuterLoop(bx, ref, it) ==
    IF it > Len(bx) THEN <<>>
    ELSE InnerLoop(bx, ref, it, 1) \o OuterLoop(bx, ref, it + 1)

CreateTodoList(bx, ref) == OuterLoop(bx, ref, 1)

\* A string is a sequence of character codes.
NoCall == [path |-> <<>>, part1 |-> <<>>, middle |-> <<>>, part2 |-> <<>>,
           extension |-> <<>>]

NotCalled == [state |-> "none", value |-> <<>>]

\* The state at the entry of BatchDiff, but for its arguments and configuration.
BatchEntry ==
    /\ files = <<>>
    /\ num_diffed = 0
    /\ mpc = "todo"
    /\ started = 0
    /\ joined = 0
    /\ reports = <<>>
    /\ g_queue_mutex = 0
    /\ g_wants_to_quit = FALSE
    /\ signal_count = 0
    /\ exited = FALSE
    /\ wpc = [w \in Workers |-> "idle"]
    /\ file1 = [w \in Workers |-> ""]
    /\ file2 = [w \in Workers |-> ""]
    /\ last_file1 = [w \in Workers |-> ""]
    /\ last_file2 = [w \in Workers |-> ""]
    /\ slot1 = [w \in Workers |-> ""]
    /\ slot2 = [w \in Workers |-> ""]
    /\ instruction_cache = [w \in Workers |-> {}]
    /\ did1 = [w \in Workers |-> "none"]
    /\ did2 = [w \in Workers |-> "none"]
    /\ result = [w \in Workers |-> "none"]
    /\ seeded = <<>>
    /\ popped = <<>>
    /\ pops_after_quit = [w \in Workers |-> 0]
    /\ taken = <<>>
    /\ prev = [w \in Workers |-> <<>>]

\* The flags' default values, lines 76-90, but for output_format.
NoFlags == [ui |-> FALSE, output_format |-> <<>>, primary |-> "",
            secondary |-> "", output_dir |-> "", ls |-> FALSE,
            md_index |-> FALSE]

NoNames == [path |-> <<>>, part1 |-> <<>>, part2 |-> <<>>]

NotAsked == [primary |-> "unknown", secondary |-> "unknown",
             output_dir |-> "unknown"]

\* The state at the entry of BinDiffMain, but for the command line; the
\* globals of lines 150-151.
MainLocals ==
    /\ output_dir = ""
    /\ g_output_binary = FALSE
    /\ g_output_log = FALSE
    /\ primary = ""
    /\ secondary = ""
    /\ fs = NotAsked
    /\ status = "none"
    /\ exit_status = "none"
    /\ effects = <<>>
    /\ call_graph1 = FALSE
    /\ call_graph2 = FALSE
    /\ done_something = FALSE
    /\ names = NoNames
    /\ writer = <<>>
    /\ writes = <<>>
    /\ console = <<>>

\* BinDiffMain is not part of the run.
MainEntry ==
    /\ FLAGS = NoFlags
    /\ positional = <<>>
    /\ bpc = "idle"
    /\ MainLocals

Init ==
    /\ \E k \in 0..MaxFiles : binexports = Listing(k)
    /\ full_reference_file \in References
    /\ num_threads \in 0..MaxThreads
    /\ flag_export \in BOOLEAN
    /\ BatchEntry
    /\ name_call = NoCall
    /\ name_ret = NotCalled
    /\ MainEntry

\* The process runs: exit(1) was not called and BinDiffMain has not returned.
Running == ~exited /\ mpc # "done"

\* BatchDiff, lines 433-445.
SeedQueue ==
    /\ Running
    /\ mpc = "todo"
    /\ files' = CreateTodoList(binexports, full_reference_file)
    /\ seeded' = files'
    /\ mpc' = "export"
    /\ UNCHANGED <<binexports, full_reference_file, num_threads, flag_export,
                   num_diffed, started, joined, reports>>
    /\ UNCHANGED <<gvars, wvars, nvars>>

\* BatchDiff, lines 447-471: the export, then the mode test.
Export ==
    /\ Running
    /\ mpc = "export"
    /\ IF flag_export
         THEN mpc' = "done" /\ UNCHANGED num_diffed
         ELSE mpc' = "spawn" /\ num_diffed' = Len(files)
    /\ UNCHANGED <<binexports, full_reference_file, num_threads, flag_export,
                   files, started, joined, reports, seeded>>
    /\ UNCHANGED <<gvars, wvars, nvars>>

\* BatchDiff, lines 472-474: one threads.emplace_back per step.
SpawnThread ==
    /\ Running
    /\ mpc = "spawn"
    /\ IF started < num_threads
         THEN /\ started' = started + 1
              /\ wpc' = [wpc EXCEPT ![started + 1] = "lock"]
              /\ UNCHANGED mpc
         ELSE /\ mpc' = "join"
              /\ UNCHANGED <<started, wpc>>
    /\ UNCHANGED <<binexports, full_reference_file, num_threads, flag_export,
                   files, num_diffed, joined, reports, seeded>>
    /\ UNCHANGED <<gvars, nvars>>
    /\ UNCHANGED <<file1, file2, last_file1, last_file2, slot1, slot2,
                   instruction_cache, did1, did2, result, popped, taken, pops_after_quit, prev>>

\* Mutant of JoinThread: the join does not wait for the thread to return.
JoinThreadNoWait ==
    /\ Running
    /\ mpc = "join"
    /\ IF joined < started
         THEN /\ joined' = joined + 1
              /\ UNCHANGED mpc
         ELSE /\ mpc' = "report"
              /\ UNCHANGED joined
    /\ UNCHANGED <<binexports, full_reference_file, num_threads, flag_export,
                   files, num_diffed, started, reports, seeded>>
    /\ UNCHANGED <<gvars, wvars, nvars>>

\* BatchDiff, lines 475-477: thread.join() returns once the thread has returned.
JoinThread ==
    /\ Running
    /\ mpc = "join"
    /\ IF joined < started
         THEN /\ wpc[joined + 1] = "done"
              /\ joined' = joined + 1
              /\ UNCHANGED mpc
         ELSE /\ mpc' = "report"
              /\ UNCHANGED joined
    /\ UNCHANGED <<binexports, full_reference_file, num_threads, flag_export,
                   files, num_diffed, started, reports, seeded>>
    /\ UNCHANGED <<gvars, wvars, nvars>>

\* Mutant of Report: the pairs the workers took are counted.
ReportTaken ==
    /\ Running
    /\ mpc = "report"
    /\ reports' = Append(reports, Len(taken))
    /\ mpc' = "done"
    /\ UNCHANGED <<binexports, full_reference_file, num_threads, flag_export,
                   files, num_diffed, started, joined, seeded>>
    /\ UNCHANGED <<gvars, wvars, nvars>>

\* BatchDiff, lines 478-481.
Report ==
    /\ Running
    /\ mpc = "report"
    /\ reports' = Append(reports, num_diffed)
    /\ mpc' = "done"
    /\ UNCHANGED <<binexports, full_reference_file, num_threads, flag_export,
                   files, num_diffed, started, joined, seeded>>
    /\ UNCHANGED <<gvars, wvars, nvars>>

----------------------------------------------------------------------------
\* SignalHandler(SIGINT), lines 524-540.

QuitThreshold == 3

\* Mutant of SignalHandler: the count is tested before it is incremented.
SignalHandlerPostIncrement ==
    /\ Running
    /\ signal_count' = signal_count + 1
    /\ IF signal_count < QuitThreshold
         THEN g_wants_to_quit' = TRUE /\ UNCHANGED exited
         ELSE exited' = TRUE /\ UNCHANGED g_wants_to_quit
    /\ UNCHANGED g_queue_mutex
    /\ UNCHANGED <<bvars, wvars, nvars>>

SignalHandler ==
    /\ Running
    /\ signal_count' = signal_count + 1
    /\ IF signal_count + 1 < QuitThreshold
         THEN g_wants_to_quit' = TRUE /\ UNCHANGED exited
         ELSE exited' = TRUE /\ UNCHANGED g_wants_to_quit
    /\ UNCHANGED g_queue_mutex
    /\ UNCHANGED <<bvars, wvars, nvars>>

----------------------------------------------------------------------------
\* DifferThread::operator()(), lines 252-367.

\* What a worker step leaves alone of BatchDiff's and the process's state.
WorkerFrame ==
    /\ UNCHANGED <<binexports, full_reference_file, num_threads, flag_export,
                   num_diffed, mpc, started, joined, reports, seeded>>
    /\ UNCHANGED <<g_wants_to_quit, signal_count, exited, nvars>>

\* Mutant of Lock: the lock excludes nobody.
LockNoExclusion(w) ==
    /\ Running
    /\ wpc[w] = "lock"
    /\ g_queue_mutex' = w
    /\ wpc' = [wpc EXCEPT ![w] = "empty"]
    /\ WorkerFrame
    /\ UNCHANGED <<files, file1, file2, last_file1, last_file2, slot1, slot2,
                   instruction_cache, did1, did2, result, popped, taken, pops_after_quit, prev>>

\* absl::MutexLock lock{&g_queue_mutex}, line 272.
Lock(w) ==
    /\ Running
    /\ wpc[w] = "lock"
    /\ g_queue_mutex = 0
    /\ g_queue_mutex' = w
    /\ wpc' = [wpc EXCEPT ![w] = "empty"]
    /\ WorkerFrame
    /\ UNCHANGED <<files, file1, file2, last_file1, last_file2, slot1, slot2,
                   instruction_cache, did1, did2, result, popped, taken, pops_after_quit, prev>>

\* Mutant of CheckEmpty: the break leaves the loop with the lock held.
CheckEmptyKeepsLock(w) ==
    /\ Running
    /\ wpc[w] = "empty"
    /\ wpc' = [wpc EXCEPT ![w] = IF files = <<>> THEN "done" ELSE "front"]
    /\ UNCHANGED g_queue_mutex
    /\ WorkerFrame
    /\ UNCHANGED <<files, file1, file2, last_file1, last_file2, slot1, slot2,
                   instruction_cache, did1, did2, result, popped, taken,
                   pops_after_quit, prev>>

\* Mutant of CheckEmpty: the lock is given up after the test.
CheckEmptyReleasesLock(w) ==
    /\ Running
    /\ wpc[w] = "empty"
    /\ wpc' = [wpc EXCEPT ![w] = IF files = <<>> THEN "done" ELSE "front"]
    /\ g_queue_mutex' = 0
    /\ WorkerFrame
    /\ UNCHANGED <<files, file1, file2, last_file1, last_file2, slot1, slot2,
                   instruction_cache, did1, did2, result, popped, taken, pops_after_quit, prev>>

\* if (file_queue_->empty()) break;  lines 273-275. The break leaves the lock's
\* scope and the loop.
CheckEmpty(w) ==
    /\ Running
    /\ wpc[w] = "empty"
    /\ IF files = <<>>
         THEN /\ wpc' = [wpc EXCEPT ![w] = "done"]
              /\ g_queue_mutex' = 0
         ELSE /\ wpc' = [wpc EXCEPT ![w] = "front"]
              /\ UNCHANGED g_queue_mutex
    /\ WorkerFrame
    /\ UNCHANGED <<files, file1, file2, last_file1, last_file2, slot1, slot2,
                   instruction_cache, did1, did2, result, popped, taken, pops_after_quit, prev>>

\* What front() yields: the first pair, or, on an empty list (undefined
\* behaviour), any pair.
FrontOf(q) ==
    IF q # <<>> THEN {Head(q)}
    ELSE {<<a, b>> : a \in {"", FileName(1)}, b \in {"", FileName(2)}}

\* file1 = front().first; file2 = front().second;  lines 276-277.
ReadFront(w) ==
    /\ Running
    /\ wpc[w] = "front"
    /\ \E p \in FrontOf(files) :
         /\ file1' = [file1 EXCEPT ![w] = p[1]]
         /\ file2' = [file2 EXCEPT ![w] = p[2]]
    /\ wpc' = [wpc EXCEPT ![w] = "popf"]
    /\ WorkerFrame
    /\ UNCHANGED <<g_queue_mutex, files, last_file1, last_file2, slot1, slot2,
                   instruction_cache, did1, did2, result, popped, taken, pops_after_quit, prev>>

\* The element pop_front() removes, as a sequence of at most one pair.
FrontSeq(q) == IF q # <<>> THEN <<Head(q)>> ELSE <<>>

\* Mutant of PopFront: the pair at the back is removed.
PopFrontRemovesBack(w) ==
    /\ Running
    /\ wpc[w] = "popf"
    /\ files' = IF files # <<>> THEN SubSeq(files, 1, Len(files) - 1) ELSE files
    /\ popped' = popped \o (IF files # <<>> THEN <<files[Len(files)]>> ELSE <<>>)
    /\ pops_after_quit' =
         [pops_after_quit EXCEPT ![w] = IF g_wants_to_quit THEN @ + 1 ELSE @]
    /\ taken' = Append(taken, <<file1[w], file2[w]>>)
    /\ g_queue_mutex' = 0
    /\ wpc' = [wpc EXCEPT ![w] = "clear"]
    /\ WorkerFrame
    /\ UNCHANGED <<file1, file2, last_file1, last_file2, slot1, slot2,
                   instruction_cache, did1, did2, result, prev>>

\* file_queue_->pop_front(), then the lock's scope ends; lines 278-279.
PopFront(w) ==
    /\ Running
    /\ wpc[w] = "popf"
    /\ files' = IF files # <<>> THEN Tail(files) ELSE files
    /\ popped' = popped \o FrontSeq(files)
    /\ pops_after_quit' =
         [pops_after_quit EXCEPT ![w] = IF g_wants_to_quit THEN @ + 1 ELSE @]
    /\ taken' = Append(taken, <<file1[w], file2[w]>>)
    /\ g_queue_mutex' = 0
    /\ wpc' = [wpc EXCEPT ![w] = "clear"]
    /\ WorkerFrame
    /\ UNCHANGED <<file1, file2, last_file1, last_file2, slot1, slot2,
                   instruction_cache, did1, did2, result, prev>>

\* Mutant of MustClear: the comparisons are inverted.
MustClearInverted(w) == last_file1[w] = file1[w] /\ last_file2[w] = file2[w]

\* Mutant of MustClear: one differing side is enough.
MustClearEither(w) == last_file1[w] # file1[w] \/ last_file2[w] # file2[w]

\* if (last_file1 != file1 && last_file2 != file2) instruction_cache.clear();
\* lines 281-284.
MustClear(w) == last_file1[w] # file1[w] /\ last_file2[w] # file2[w]

\* Mutant of ClearCache: the cache is cleared on every iteration.
ClearCacheAlways(w) ==
    /\ Running
    /\ wpc[w] = "clear"
    /\ instruction_cache' = [instruction_cache EXCEPT ![w] = {}]
    /\ wpc' = [wpc EXCEPT ![w] = "load1"]
    /\ WorkerFrame
    /\ UNCHANGED <<g_queue_mutex, files, file1, file2, last_file1, last_file2,
                   slot1, slot2, did1, did2, result, popped, taken,
                   pops_after_quit, prev>>

ClearCache(w) ==
    /\ Running
    /\ wpc[w] = "clear"
    /\ instruction_cache' =
         [instruction_cache EXCEPT ![w] = IF MustClear(w) THEN {} ELSE @]
    /\ wpc' = [wpc EXCEPT ![w] = "load1"]
    /\ WorkerFrame
    /\ UNCHANGED <<g_queue_mutex, files, file1, file2, last_file1, last_file2,
                   slot1, slot2, did1, did2, result, popped, taken, pops_after_quit, prev>>

\* Mutant of Caught: the tracked identifiers are set as on success.
CaughtKeepsLast(w) ==
    /\ last_file1' = [last_file1 EXCEPT ![w] = file1[w]]
    /\ last_file2' = [last_file2 EXCEPT ![w] = file2[w]]
    /\ result' = [result EXCEPT ![w] = "failed"]
    /\ prev' = [prev EXCEPT ![w] = <<file1[w], file2[w]>>]
    /\ file1' = [file1 EXCEPT ![w] = ""]
    /\ file2' = [file2 EXCEPT ![w] = ""]
    /\ did1' = [did1 EXCEPT ![w] = "none"]
    /\ did2' = [did2 EXCEPT ![w] = "none"]
    /\ wpc' = [wpc EXCEPT ![w] = "while"]

\* Mutant of Caught: only the primary's tracked identifier is cleared.
CaughtClearsPrimaryOnly(w) ==
    /\ last_file1' = [last_file1 EXCEPT ![w] = ""]
    /\ UNCHANGED last_file2
    /\ result' = [result EXCEPT ![w] = "failed"]
    /\ prev' = [prev EXCEPT ![w] = <<file1[w], file2[w]>>]
    /\ file1' = [file1 EXCEPT ![w] = ""]
    /\ file2' = [file2 EXCEPT ![w] = ""]
    /\ did1' = [did1 EXCEPT ![w] = "none"]
    /\ did2' = [did2 EXCEPT ![w] = "none"]
    /\ wpc' = [wpc EXCEPT ![w] = "while"]

\* Either catch clause, lines 354-365 (both do the same), and the end of the
\* iteration's scope.
Caught(w) ==
    /\ last_file1' = [last_file1 EXCEPT ![w] = ""]
    /\ last_file2' = [last_file2 EXCEPT ![w] = ""]
    /\ result' = [result EXCEPT ![w] = "failed"]
    /\ prev' = [prev EXCEPT ![w] = <<file1[w], file2[w]>>]
    /\ file1' = [file1 EXCEPT ![w] = ""]
    /\ file2' = [file2 EXCEPT ![w] = ""]
    /\ did1' = [did1 EXCEPT ![w] = "none"]
    /\ did2' = [did2 EXCEPT ![w] = "none"]
    /\ wpc' = [wpc EXCEPT ![w] = "while"]

\* Mutant of Reload1: the primary is read on every iteration.
Reload1Always(w) == TRUE

\* Whether the primary side is read again, line 289.
Reload1(w) == last_file1[w] # file1[w]

\* Lines 289-297: Read() of the primary, or ResetMatches().
Load1(w) ==
    /\ Running
    /\ wpc[w] = "load1"
    /\ \/ /\ Reload1(w)
          /\ slot1' = [slot1 EXCEPT ![w] = file1[w]]
          /\ instruction_cache' =
               [instruction_cache EXCEPT ![w] = @ \cup {file1[w]}]
          /\ did1' = [did1 EXCEPT ![w] = "read"]
          /\ wpc' = [wpc EXCEPT ![w] = "load2"]
          /\ UNCHANGED <<file1, file2, last_file1, last_file2, did2, result, prev>>
       \/ /\ Reload1(w)
          /\ Caught(w)
          /\ slot1' = [slot1 EXCEPT ![w] = ""]
          /\ instruction_cache' =
               [instruction_cache EXCEPT ![w] = @ \cup {file1[w]}]
       \/ /\ ~Reload1(w)
          /\ did1' = [did1 EXCEPT ![w] = "reset"]
          /\ wpc' = [wpc EXCEPT ![w] = "load2"]
          /\ UNCHANGED <<file1, file2, last_file1, last_file2, slot1,
                         instruction_cache, did2, result, prev>>
    /\ WorkerFrame
    /\ UNCHANGED <<g_queue_mutex, files, slot2, popped, taken, pops_after_quit>>

\* Mutant of Reload2: the primary's tracked identifier is compared.
Reload2ComparesPrimary(w) == last_file1[w] # file2[w]

\* Whether the secondary side is read again, line 299.
Reload2(w) == last_file2[w] # file2[w]

\* Lines 299-307: Read() of the secondary, or ResetMatches().
Load2(w) ==
    /\ Running
    /\ wpc[w] = "load2"
    /\ \/ /\ Reload2(w)
          /\ slot2' = [slot2 EXCEPT ![w] = file2[w]]
          /\ instruction_cache' =
               [instruction_cache EXCEPT ![w] = @ \cup {file2[w]}]
          /\ did2' = [did2 EXCEPT ![w] = "read"]
          /\ wpc' = [wpc EXCEPT ![w] = "diff"]
          /\ UNCHANGED <<file1, file2, last_file1, last_file2, did1, result, prev>>
       \/ /\ Reload2(w)
          /\ Caught(w)
          /\ slot2' = [slot2 EXCEPT ![w] = ""]
          /\ instruction_cache' =
               [instruction_cache EXCEPT ![w] = @ \cup {file2[w]}]
       \/ /\ ~Reload2(w)
          /\ did2' = [did2 EXCEPT ![w] = "reset"]
          /\ wpc' = [wpc EXCEPT ![w] = "diff"]
          /\ UNCHANGED <<file1, file2, last_file1, last_file2, slot2,
                         instruction_cache, did1, result, prev>>
    /\ WorkerFrame
    /\ UNCHANGED <<g_queue_mutex, files, slot1, popped, taken, pops_after_quit>>

\* Lines 309-353: Diff, the metrics, the writers, the result message, and
\* last_file1 = file1; last_file2 = file2. Any of the calls may throw.
DiffAndWrite(w) ==
    /\ Running
    /\ wpc[w] = "diff"
    /\ \/ /\ last_file1' = [last_file1 EXCEPT ![w] = file1[w]]
          /\ last_file2' = [last_file2 EXCEPT ![w] = file2[w]]
          /\ result' = [result EXCEPT ![w] = "ok"]
          /\ prev' = [prev EXCEPT ![w] = <<file1[w], file2[w]>>]
          /\ file1' = [file1 EXCEPT ![w] = ""]
          /\ file2' = [file2 EXCEPT ![w] = ""]
          /\ did1' = [did1 EXCEPT ![w] = "none"]
          /\ did2' = [did2 EXCEPT ![w] = "none"]
          /\ wpc' = [wpc EXCEPT ![w] = "while"]
       \/ Caught(w)
    /\ WorkerFrame
    /\ UNCHANGED <<g_queue_mutex, files, slot1, slot2, instruction_cache, popped, taken, pops_after_quit>>

\* Mutant of LoopTest: the loop goes on while a stop is requested.
LoopTestInverted(w) ==
    /\ Running
    /\ wpc[w] = "while"
    /\ wpc' = [wpc EXCEPT ![w] = IF g_wants_to_quit THEN "lock" ELSE "done"]
    /\ WorkerFrame
    /\ UNCHANGED <<g_queue_mutex, files, file1, file2, last_file1, last_file2,
                   slot1, slot2, instruction_cache, did1, did2, result, popped,
                   taken, pops_after_quit, prev>>

\* } while (!g_wants_to_quit);  line 366.
LoopTest(w) ==
    /\ Running
    /\ wpc[w] = "while"
    /\ wpc' = [wpc EXCEPT ![w] = IF g_wants_to_quit THEN "done" ELSE "lock"]
    /\ WorkerFrame
    /\ UNCHANGED <<g_queue_mutex, files, file1, file2, last_file1, last_file2,
                   slot1, slot2, instruction_cache, did1, did2, result, popped, taken, pops_after_quit,
                   prev>>

DifferThread(w) ==
    \/ Lock(w)
    \/ CheckEmpty(w)
    \/ ReadFront(w)
    \/ PopFront(w)
    \/ ClearCache(w)
    \/ Load1(w)
    \/ Load2(w)
    \/ DiffAndWrite(w)
    \/ LoopTest(w)

Next ==
    \/ SeedQueue
    \/ Export
    \/ SpawnThread
    \/ JoinThread
    \/ Report
    \/ SignalHandler
    \/ \E w \in Workers : DifferThread(w)

Spec == Init /\ [][Next]_vars

\* The runs in which every step of BatchDiff and of a worker that can be taken
\* is taken in the end: each call of the loop body and each join returns. The
\* signal is the operator's and may never come.
MaxLiveFiles == 2

InitLive ==
    /\ Init
    /\ Len(binexports) <= MaxLiveFiles

BatchDiff == SeedQueue \/ Export \/ SpawnThread \/ JoinThread \/ Report

Fairness ==
    /\ WF_vars(BatchDiff)
    /\ \A w \in Workers : WF_vars(DifferThread(w))

SpecLive == InitLive /\ [][Next]_vars /\ Fairness

----------------------------------------------------------------------------
\* GetTruncatedFilename, lines 184-233.

kMaxFilename == 250

\* Bounds of the calls the model draws.
MaxPartLen == 9
MinPathLen == 228
MaxPathLen == 240

Min(a, b) == IF a < b THEN a ELSE b

Max(a, b) == IF a > b THEN a ELSE b

\* Mutant of Substr: the characters are taken from the end of the string.
SubstrFromEnd(s, pos, count) ==
    SubSeq(s, Len(s) - Min(count, Len(s) - pos) + 1, Len(s))

\* std::string::substr(pos, count): at most count characters from pos.
Substr(s, pos, count) == SubSeq(s, pos + 1, pos + Min(count, Len(s) - pos))

\* The characters of the drawn strings: position i of the string tagged t.
Str(t, n) == [i \in 1..n |-> 1000 * t + i]

\* "_vs_", and ".results" / ".BinDiff" (lines 330-336).
Middle == <<95, 118, 115, 95>>
Extensions == {<<46, 114, 101, 115, 117, 108, 116, 115>>,
               <<46, 66, 105, 110, 68, 105, 102, 102>>}

\* Mutant of NameLength: middle.size() is added twice.
NameLengthMiddleTwice(path, part1, middle, part2, extension) ==
    Len(path) + Len(part1) + Len(middle) + Len(middle) + Len(part2)
      + Len(extension)

\* length, lines 196-198.
NameLength(path, part1, middle, part2, extension) ==
    Len(path) + Len(part1) + Len(middle) + Len(part2) + Len(extension)

\* Mutant of ShortenLonger: the longer fragment is always cut to the length of
\* the shorter one.
ShortenLongerToShorter(longer, shorter, overflow) ==
    Substr(longer, 0, Len(shorter))

\* The longer fragment cut towards the shorter one: lines 209-211 (214-216).
ShortenLonger(longer, shorter, overflow) ==
    Substr(longer, 0,
           Max(Len(shorter),
               IF Len(longer) > overflow THEN Len(longer) - overflow ELSE 0))

\* Mutant of EqualCut: the half is rounded up.
EqualCutRoundedUp(part, size, overflow) ==
    Substr(part, 0, size - ((overflow + 1) \div 2))

\* The equal cut of lines 231-232: each fragment loses overflow / 2 characters.
EqualCut(part, size, overflow) == Substr(part, 0, size - (overflow \div 2))

\* Mutant of CannotFit: the comparison is strict.
CannotFitStrict(overflow, size) == (overflow \div 2) > size

\* Mutant of CannotFit: the overflow is not halved.
CannotFitWhole(overflow, size) == overflow >= size

\* Whether the second step gives up, line 225.
CannotFit(overflow, size) == (overflow \div 2) >= size

Returned(str) == [state |-> "returned", value |-> str]

Thrown == [state |-> "thrown", value |-> <<>>]

GetTruncatedFilename(path, part1, middle, part2, extension) ==
    LET length == NameLength(path, part1, middle, part2, extension)
        overflow0 == length - kMaxFilename
        one == IF Len(part1) > Len(part2)
                 THEN ShortenLonger(part1, part2, overflow0) ELSE part1
        two == IF Len(part2) > Len(part1)
                 THEN ShortenLonger(part2, part1, overflow0) ELSE part2
        overflow == overflow0 - (Len(part1) - Len(one)) - (Len(part2) - Len(two))
    IN  IF length <= kMaxFilename
          THEN Returned(path \o part1 \o middle \o part2 \o extension)
        ELSE IF overflow = 0
          THEN Returned(path \o one \o middle \o two \o extension)
        ELSE IF CannotFit(overflow, Len(one))
          THEN Thrown
        ELSE Returned(path \o EqualCut(part1, Len(one), overflow) \o middle
                      \o EqualCut(part2, Len(two), overflow) \o extension)

\* The calls the model draws: an output directory path ending in the
\* separator, the two program names, the middle and the extension.
NameCalls ==
    [path : {Str(1, n) : n \in MinPathLen..MaxPathLen},
     part1 : {Str(2, n) : n \in 0..MaxPartLen},
     middle : {Middle},
     part2 : {Str(4, n) : n \in 0..MaxPartLen},
     extension : Extensions]

InitName ==
    /\ binexports = <<>>
    /\ full_reference_file = ""
    /\ num_threads = 0
    /\ flag_export = FALSE
    /\ BatchEntry
    /\ name_call \in NameCalls
    /\ name_ret = NotCalled
    /\ MainEntry

CallGetTruncatedFilename ==
    /\ name_ret.state = "none"
    /\ name_ret' = GetTruncatedFilename(name_call.path, name_call.part1,
                                        name_call.middle, name_call.part2,
                                        name_call.extension)
    /\ UNCHANGED <<name_call, mvars, bvars, gvars, wvars>>

NextName == CallGetTruncatedFilename

SpecName == InitName /\ [][NextName]_vars

----------------------------------------------------------------------------
\* BinDiffMain, lines 562-814, and main, lines 818-825.

\* Bounds of the command lines the model draws.
MaxFormats == 2
MaxPositional == 3
MaxJobs == 2

current_path == "cwd"

\* The --output_format entries the model draws.
FormatEntries == {"bin", "BINARY", "Log", "xml"}

FormatLists == UNION {[1..n -> FormatEntries] : n \in 0..MaxFormats}

\* absl::AsciiStrToUpper on the entries drawn.
AsciiStrToUpper(entry) ==
    CASE entry = "bin" -> "BIN"
      [] entry = "BINARY" -> "BINARY"
      [] entry = "Log" -> "LOG"
      [] entry = "xml" -> "XML"

Positional(n) == [i \in 1..n |-> "p" \o ToString(i)]

CommandLines ==
    [ui : BOOLEAN, output_format : FormatLists, primary : {"", "a"},
     secondary : {"", "b"}, output_dir : {"", "out"}, ls : BOOLEAN,
     md_index : BOOLEAN]

InitMain ==
    /\ binexports = <<>>
    /\ full_reference_file = ""
    /\ num_threads = 0
    /\ flag_export = FALSE
    /\ BatchEntry
    /\ name_call = NoCall
    /\ name_ret = NotCalled
    /\ FLAGS \in CommandLines
    /\ \E n \in 0..MaxPositional : positional = Positional(n)
    /\ bpc = "start"
    /\ MainLocals

\* What a step of BinDiffMain leaves alone of the rest of the program.
MainFrame ==
    UNCHANGED <<bvars, gvars, wvars, name_call, name_ret, FLAGS, positional>>

avars == <<g_output_binary, g_output_log, primary, secondary>>
lvars == <<call_graph1, call_graph2, done_something>>
ovars == <<names, writer, writes, console>>

\* return of a status from BinDiffMain.
Return(code) ==
    /\ status' = code
    /\ bpc' = "return"

\* Lines 563-607: the signal handlers, the defaulted --output_dir, the parse
\* of the command line.
ParseCommandLine ==
    /\ bpc = "start"
    /\ output_dir' = IF FLAGS.output_dir = "" THEN current_path
                     ELSE FLAGS.output_dir
    /\ bpc' = "config"
    /\ MainFrame
    /\ UNCHANGED <<avars, lvars, ovars, fs, status, exit_status, effects>>

\* Lines 609-614: NA_RETURN_IF_ERROR of the load of the configuration.
LoadConfig ==
    /\ bpc = "config"
    /\ \/ /\ bpc' = "ui"
          /\ UNCHANGED status
       \/ Return("Error")
    /\ MainFrame
    /\ UNCHANGED <<avars, lvars, ovars, output_dir, fs, exit_status, effects>>

\* Lines 617-628: the UI is launched if asked for, and BinDiffMain returns.
LaunchUi ==
    /\ bpc = "ui"
    /\ \/ /\ FLAGS.ui
          /\ effects' = Append(effects, "StartUiWithOptions")
          /\ \/ Return("Ok")
             \/ Return("Error")
       \/ /\ ~FLAGS.ui
          /\ bpc' = "steps"
          /\ UNCHANGED <<status, effects>>
    /\ MainFrame
    /\ UNCHANGED <<avars, lvars, ovars, output_dir, fs, exit_status>>

\* Lines 631-634: the matching steps of the configuration.
CheckMatchingSteps ==
    /\ bpc = "steps"
    /\ \/ /\ bpc' = "formats"
          /\ UNCHANGED status
       \/ Return("FailedPrecondition")
    /\ MainFrame
    /\ UNCHANGED <<avars, lvars, ovars, output_dir, fs, exit_status, effects>>

\* Mutant of OutputFormatLoop: an unknown entry is skipped.
RECURSIVE OutputFormatLoopSkipsUnknown(_, _, _)
OutputFormatLoopSkipsUnknown(entries, i, acc) ==
    IF i > Len(entries) THEN acc
    ELSE LET format == AsciiStrToUpper(entries[i]) IN
         IF format = "BIN" \/ format = "BINARY"
           THEN OutputFormatLoopSkipsUnknown(entries, i + 1,
                                             [acc EXCEPT !.binary = TRUE])
         ELSE IF format = "LOG"
           THEN OutputFormatLoopSkipsUnknown(entries, i + 1,
                                             [acc EXCEPT !.log = TRUE])
         ELSE OutputFormatLoopSkipsUnknown(entries, i + 1, acc)

\* The loop of lines 636-646 from entry i on: the two globals and whether an
\* entry was invalid.
RECURSIVE OutputFormatLoop(_, _, _)
OutputFormatLoop(entries, i, acc) ==
    IF i > Len(entries) THEN acc
    ELSE LET format == AsciiStrToUpper(entries[i]) IN
         IF format = "BIN" \/ format = "BINARY"
           THEN OutputFormatLoop(entries, i + 1, [acc EXCEPT !.binary = TRUE])
         ELSE IF format = "LOG"
           THEN OutputFormatLoop(entries, i + 1, [acc EXCEPT !.log = TRUE])
         ELSE [acc EXCEPT !.invalid = TRUE]

OutputFormat ==
    /\ bpc = "formats"
    /\ LET r == OutputFormatLoop(FLAGS.output_format, 1,
                   [binary |-> g_output_binary, log |-> g_output_log,
                    invalid |-> FALSE])
       IN  /\ g_output_binary' = r.binary
           /\ g_output_log' = r.log
           /\ IF r.invalid THEN Return("InvalidArgument")
              ELSE bpc' = "inputs" /\ UNCHANGED status
    /\ MainFrame
    /\ UNCHANGED <<primary, secondary, lvars, ovars, output_dir, fs,
                   exit_status, effects>>

\* Lines 649-667: named arguments first, then the positional ones.
ResolveInputs ==
    /\ bpc = "inputs"
    /\ LET first == FLAGS.primary = "" /\ Len(positional) >= 1
           used1 == IF first THEN 1 ELSE 0
           second == FLAGS.secondary = "" /\ Len(positional) >= used1 + 1
           used2 == used1 + (IF second THEN 1 ELSE 0)
       IN  /\ primary' = IF first THEN positional[1] ELSE FLAGS.primary
           /\ secondary' = IF second THEN positional[used1 + 1]
                           ELSE FLAGS.secondary
           /\ IF used2 # Len(positional) THEN Return("InvalidArgument")
              ELSE IF primary' = "" THEN Return("InvalidArgument")
              ELSE bpc' = "outdir" /\ UNCHANGED status
    /\ MainFrame
    /\ UNCHANGED <<g_output_binary, g_output_log, lvars, ovars, output_dir, fs,
                   exit_status, effects>>

\* What the file system may say a path is.
PathKinds == {"file", "dir", "none"}

\* Lines 675-689: the output directory defaults to a primary that is a
\* directory, and has to be a directory.
CheckOutputDir ==
    /\ bpc = "outdir"
    /\ \E k \in PathKinds,
          d \in (IF output_dir = current_path THEN {"dir"} ELSE PathKinds) :
         /\ output_dir' = IF output_dir = current_path /\ k = "dir"
                          THEN primary ELSE output_dir
         /\ fs' = [fs EXCEPT !.primary = k, !.output_dir = d]
         /\ IF d # "dir" THEN Return("FailedPrecondition")
            ELSE bpc' = "read1" /\ UNCHANGED status
    /\ MainFrame
    /\ UNCHANGED <<avars, lvars, ovars, exit_status, effects>>

\* Lines 691-697: the primary is read if it is a file; Read() may throw
\* (line 808).
ReadPrimary ==
    /\ bpc = "read1"
    /\ \/ /\ fs.primary = "file"
          /\ effects' = Append(effects, "Read primary")
          /\ \/ /\ call_graph1' = TRUE
                /\ bpc' = "batch"
                /\ UNCHANGED status
             \/ /\ Return("Unknown")
                /\ UNCHANGED call_graph1
       \/ /\ fs.primary # "file"
          /\ bpc' = "batch"
          /\ UNCHANGED <<status, effects, call_graph1>>
    /\ MainFrame
    /\ UNCHANGED <<avars, ovars, call_graph2, done_something, output_dir, fs,
                   exit_status>>

\* ".results" and ".BinDiff", lines 331 and 336 (783 and 790).
ResultsExtension == <<46, 114, 101, 115, 117, 108, 116, 115>>
BinDiffExtension == <<46, 66, 105, 110, 68, 105, 102, 102>>

\* The output paths (with the separator) and call graph file names the model
\* draws for a diff.
OutputNames ==
    {[path |-> Str(1, n), part1 |-> Str(2, MaxPartLen),
      part2 |-> Str(4, MaxPartLen)] : n \in {MinPathLen, MaxPathLen}}

\* The file name of a sink, lines 329-331 and 334-336 (781-783 and 787-790).
SinkName(extension) ==
    GetTruncatedFilename(names.path, names.part1, Middle, names.part2,
                         extension)

\* Mutant of NeedsDatabase: only the flag counts.
NeedsDatabaseFlagOnly(chain) == g_output_binary

\* if (g_output_binary || writer.IsEmpty()), lines 333 and 786.
NeedsDatabase(chain) == g_output_binary \/ chain = <<>>

\* The catch clauses of the worker, lines 354-365: the error is printed.
JobCaught(what) ==
    /\ console' = Append(console, what)
    /\ bpc' = "job_end"

\* Lines 699-709: a primary that is a directory is listed, indexed or diffed
\* in a batch.
Batch ==
    /\ bpc = "batch"
    /\ \/ /\ fs.primary = "dir"
          /\ FLAGS.ls
          /\ effects' = Append(effects, "ListFiles")
          /\ done_something' = TRUE
          /\ bpc' = "md_index"
          /\ UNCHANGED names
       \/ /\ fs.primary = "dir"
          /\ ~FLAGS.ls /\ FLAGS.md_index
          /\ effects' = Append(effects, "BatchDumpMdIndices")
          /\ done_something' = TRUE
          /\ bpc' = "md_index"
          /\ UNCHANGED names
       \/ /\ fs.primary = "dir"
          /\ ~FLAGS.ls /\ ~FLAGS.md_index
          /\ effects' = Append(effects, "BatchDiff")
          /\ bpc' = "job_next"
          /\ UNCHANGED <<done_something, names>>
       \/ /\ fs.primary # "dir"
          /\ bpc' = "md_index"
          /\ UNCHANGED <<effects, done_something, names>>
    /\ MainFrame
    /\ UNCHANGED <<avars, call_graph1, call_graph2, writer, writes, console,
                   output_dir, fs, status, exit_status>>

\* The jobs of the batch so far.
JobsDone == Cardinality({i \in 1..Len(effects) : effects[i] = "Diff"})

\* BatchDiff, line 708: a worker comes to the diff of its next pair (line
\* 309), or the queue is empty and BatchDiff returns.
JobNext ==
    /\ bpc = "job_next"
    /\ \/ /\ JobsDone < MaxJobs
          /\ names' \in OutputNames
          /\ bpc' = "job"
          /\ UNCHANGED done_something
       \/ /\ done_something' = TRUE
          /\ bpc' = "md_index"
          /\ UNCHANGED names
    /\ MainFrame
    /\ UNCHANGED <<avars, call_graph1, call_graph2, writer, writes, console,
                   output_dir, fs, status, exit_status, effects>>

\* Diff and the metrics of a job, lines 309-324.
JobDiff ==
    /\ bpc = "job"
    /\ effects' = Append(effects, "Diff")
    /\ \/ /\ bpc' = "job_log"
          /\ console' = Append(console, "Writing results")
       \/ JobCaught("error: diff")
    /\ MainFrame
    /\ UNCHANGED <<avars, lvars, names, writer, writes, output_dir, fs, status,
                   exit_status>>

\* Lines 328-332.
JobAddLog ==
    /\ bpc = "job_log"
    /\ IF g_output_log
         THEN IF SinkName(ResultsExtension) = Thrown
                THEN /\ JobCaught("error: naming")
                     /\ UNCHANGED writer
                ELSE /\ writer' = Append(writer, "ResultsLogWriter")
                     /\ bpc' = "job_db"
                     /\ UNCHANGED console
         ELSE /\ bpc' = "job_db"
              /\ UNCHANGED <<writer, console>>
    /\ MainFrame
    /\ UNCHANGED <<avars, lvars, names, writes, output_dir, fs, status,
                   exit_status, effects>>

\* Lines 333-337.
JobAddDatabase ==
    /\ bpc = "job_db"
    /\ IF NeedsDatabase(writer)
         THEN IF SinkName(BinDiffExtension) = Thrown
                THEN /\ JobCaught("error: naming")
                     /\ UNCHANGED writer
                ELSE /\ writer' = Append(writer, "DatabaseWriter")
                     /\ bpc' = "job_write"
                     /\ UNCHANGED console
         ELSE /\ bpc' = "job_write"
              /\ UNCHANGED <<writer, console>>
    /\ MainFrame
    /\ UNCHANGED <<avars, lvars, names, writes, output_dir, fs, status,
                   exit_status, effects>>

\* writer.Write(), lines 339-340; a sink may throw.
JobWrite ==
    /\ bpc = "job_write"
    /\ writes' = Append(writes, writer)
    /\ effects' = Append(effects, "Write")
    /\ \/ /\ bpc' = "job_msg"
          /\ UNCHANGED console
       \/ JobCaught("error: write")
    /\ MainFrame
    /\ UNCHANGED <<avars, lvars, names, writer, output_dir, fs, status,
                   exit_status>>

\* The result message, lines 342-349.
JobResultMessage ==
    /\ bpc = "job_msg"
    /\ console' = Append(console, "result")
    /\ bpc' = "job_end"
    /\ MainFrame
    /\ UNCHANGED <<avars, lvars, names, writer, writes, output_dir, fs, status,
                   exit_status, effects>>

\* The end of the iteration's scopes, lines 350-366.
JobEnd ==
    /\ bpc = "job_end"
    /\ writer' = <<>>
    /\ bpc' = "job_next"
    /\ MainFrame
    /\ UNCHANGED <<avars, lvars, names, writes, console, output_dir, fs, status,
                   exit_status, effects>>

\* Lines 711-714.
DumpMdIndex ==
    /\ bpc = "md_index"
    /\ IF FLAGS.md_index /\ call_graph1
         THEN /\ effects' = Append(effects, "DumpMdIndices")
              /\ done_something' = TRUE
         ELSE UNCHANGED <<effects, done_something>>
    /\ bpc' = "read2"
    /\ MainFrame
    /\ UNCHANGED <<avars, ovars, call_graph1, call_graph2, output_dir, fs,
                   status, exit_status>>

\* Lines 716-722: the secondary is read if it is given and a file.
ReadSecondary ==
    /\ bpc = "read2"
    /\ \/ /\ secondary # ""
          /\ \E k \in PathKinds : fs' = [fs EXCEPT !.secondary = k]
          /\ \/ /\ fs'.secondary = "file"
                /\ effects' = Append(effects, "Read secondary")
                /\ \/ /\ call_graph2' = TRUE
                      /\ bpc' = "valid"
                      /\ UNCHANGED status
                   \/ /\ Return("Unknown")
                      /\ UNCHANGED call_graph2
             \/ /\ fs'.secondary # "file"
                /\ bpc' = "valid"
                /\ UNCHANGED <<status, effects, call_graph2>>
       \/ /\ secondary = ""
          /\ bpc' = "valid"
          /\ UNCHANGED <<fs, status, effects, call_graph2>>
    /\ MainFrame
    /\ UNCHANGED <<avars, ovars, call_graph1, done_something, output_dir,
                   exit_status>>

\* Lines 724-730.
CheckInputs ==
    /\ bpc = "valid"
    /\ IF \/ ~done_something /\ fs.primary = "none"
          \/ secondary # "" /\ fs.secondary = "none"
         THEN Return("FailedPrecondition")
         ELSE bpc' = "diff" /\ UNCHANGED status
    /\ MainFrame
    /\ UNCHANGED <<avars, lvars, ovars, output_dir, fs, exit_status, effects>>

\* Lines 732-777: the diff of two files and its metrics, printed at once.
MainDiff ==
    /\ bpc = "diff"
    /\ \/ /\ call_graph1 /\ call_graph2
          /\ effects' = Append(effects, "Diff")
          /\ \/ /\ names' \in OutputNames
                /\ console' = Append(console, "Similarity")
                /\ bpc' = "log"
                /\ UNCHANGED status
             \/ /\ Return("Unknown")
                /\ UNCHANGED <<names, console>>
       \/ /\ ~(call_graph1 /\ call_graph2)
          /\ bpc' = "help"
          /\ UNCHANGED <<status, effects, names, console>>
    /\ MainFrame
    /\ UNCHANGED <<avars, lvars, writer, writes, output_dir, fs, exit_status>>

\* Lines 780-785; a throw of GetTruncatedFilename ends in line 808.
MainAddLog ==
    /\ bpc = "log"
    /\ IF g_output_log
         THEN IF SinkName(ResultsExtension) = Thrown
                THEN /\ Return("Unknown")
                     /\ UNCHANGED writer
                ELSE /\ writer' = Append(writer, "ResultsLogWriter")
                     /\ bpc' = "db"
                     /\ UNCHANGED status
         ELSE /\ bpc' = "db"
              /\ UNCHANGED <<writer, status>>
    /\ MainFrame
    /\ UNCHANGED <<avars, lvars, names, writes, console, output_dir, fs,
                   exit_status, effects>>

\* Lines 786-791.
MainAddDatabase ==
    /\ bpc = "db"
    /\ IF NeedsDatabase(writer)
         THEN IF SinkName(BinDiffExtension) = Thrown
                THEN /\ Return("Unknown")
                     /\ UNCHANGED writer
                ELSE /\ writer' = Append(writer, "DatabaseWriter")
                     /\ bpc' = "write"
                     /\ UNCHANGED status
         ELSE /\ bpc' = "write"
              /\ UNCHANGED <<writer, status>>
    /\ MainFrame
    /\ UNCHANGED <<avars, lvars, names, writes, console, output_dir, fs,
                   exit_status, effects>>

\* Lines 793-799: if (!writer.IsEmpty()) writer.Write(); done_something.
MainWrite ==
    /\ bpc = "write"
    /\ IF writer # <<>>
         THEN /\ writes' = Append(writes, writer)
              /\ effects' = Append(effects, "Write")
              /\ \/ /\ done_something' = TRUE
                    /\ bpc' = "help"
                    /\ UNCHANGED status
                 \/ /\ Return("Unknown")
                    /\ UNCHANGED done_something
         ELSE /\ done_something' = TRUE
              /\ bpc' = "help"
              /\ UNCHANGED <<writes, effects, status>>
    /\ MainFrame
    /\ UNCHANGED <<avars, call_graph1, call_graph2, names, writer, console,
                   output_dir, fs, exit_status>>

\* Lines 803-813: the usage if nothing was done, and the OK status.
Help ==
    /\ bpc = "help"
    /\ effects' = IF done_something THEN effects ELSE Append(effects, "FlagsHelp")
    /\ Return("Ok")
    /\ MainFrame
    /\ UNCHANGED <<avars, lvars, ovars, output_dir, fs, exit_status>>

\* main, lines 818-825.
Main ==
    /\ bpc = "return"
    /\ exit_status' = IF status = "Ok" THEN "EXIT_SUCCESS" ELSE "EXIT_FAILURE"
    /\ bpc' = "exited"
    /\ MainFrame
    /\ UNCHANGED <<avars, lvars, ovars, output_dir, fs, status, effects>>

NextMain ==
    \/ ParseCommandLine
    \/ LoadConfig
    \/ LaunchUi
    \/ CheckMatchingSteps
    \/ OutputFormat
    \/ ResolveInputs
    \/ CheckOutputDir
    \/ ReadPrimary
    \/ Batch
    \/ JobNext
    \/ JobDiff
    \/ JobAddLog
    \/ JobAddDatabase
    \/ JobWrite
    \/ JobResultMessage
    \/ JobEnd
    \/ DumpMdIndex
    \/ ReadSecondary
    \/ CheckInputs
    \/ MainDiff
    \/ MainAddLog
    \/ MainAddDatabase
    \/ MainWrite
    \/ Help
    \/ Main

SpecMain == InitMain /\ [][NextMain]_vars

----------------------------------------------------------------------------
\* Properties of the worker pool (under Spec).

Range(q) == {q[i] : i \in 1..Len(q)}

NoDup(q) == \A i, j \in 1..Len(q) : i # j => q[i] # q[j]

\* The positions of the loop body after the critical section.
Processing == {"clear", "load1", "load2", "diff"}

Pair(w) == <<file1[w], file2[w]>>

\* BatchDiff is past its joins.
AllJoined == mpc \in {"report", "done"} /\ ~flag_export

\* C1: every seeded pair is removed from the queue at most once and taken by
\* at most one worker, what was taken is exactly what the queue lost (nothing
\* comes back into the queue), and when the joins are done with at least one
\* worker and no stop request, every seeded pair was taken exactly once.
C1_AtMostOnce ==
    /\ NoDup(taken)
    /\ taken = popped
    /\ popped \o files = seeded
    /\ \A w \in Workers : wpc[w] \in Processing => Pair(w) \in Range(taken)
    /\ \A v, w \in Workers :
         (v # w /\ wpc[v] \in Processing /\ wpc[w] \in Processing)
           => Pair(v) # Pair(w)
    /\ (AllJoined /\ num_threads >= 1 /\ signal_count = 0)
         => (files = <<>> /\ taken = seeded)

\* The joins are done after two workers each took pairs, one of them failing
\* its last one, and the whole seeded queue was taken.
C1_Witness ==
    /\ AllJoined
    /\ num_threads = 2
    /\ signal_count = 0
    /\ Len(seeded) = 6
    /\ taken = seeded
    /\ \A w \in 1..2 : prev[w] # <<>>
    /\ \E w \in 1..2 : result[w] = "failed"

\* C2 (as claimed): once g_wants_to_quit is set, no pair leaves the queue.
C2_NoPopAfterStop == [][g_wants_to_quit => popped' = popped]_vars

\* C3: a failing iteration of worker w clears both of w's tracked identifiers,
\* leaves w at the loop test (not terminated), and changes nothing of another
\* worker; from the loop test w goes for the queue lock unless a stop was
\* requested.
FailStep(w) ==
    /\ wpc[w] \in Processing
    /\ wpc'[w] \notin Processing
    /\ result'[w] = "failed"

OthersUntouched(w) ==
    \A v \in Workers \ {w} :
        /\ wpc'[v] = wpc[v]
        /\ file1'[v] = file1[v] /\ file2'[v] = file2[v]
        /\ last_file1'[v] = last_file1[v] /\ last_file2'[v] = last_file2[v]
        /\ slot1'[v] = slot1[v] /\ slot2'[v] = slot2[v]
        /\ instruction_cache'[v] = instruction_cache[v]

C3_FailureIsolated ==
    [][\A w \in Workers :
         /\ FailStep(w) =>
              /\ wpc'[w] = "while"
              /\ last_file1'[w] = "" /\ last_file2'[w] = ""
              /\ OthersUntouched(w)
              /\ files' = files
         /\ (wpc[w] = "while" /\ wpc'[w] # "while") =>
              wpc'[w] = IF g_wants_to_quit THEN "done" ELSE "lock"]_vars

\* A worker whose previous pair failed holds a next pair while the other
\* worker is in the middle of one.
C3_Witness ==
    \E v, w \in Workers :
        /\ v # w
        /\ result[w] = "failed"
        /\ last_file1[w] = "" /\ last_file2[w] = ""
        /\ wpc[w] = "clear"
        /\ prev[w] # <<>>
        /\ wpc[v] = "diff"
        /\ ~g_wants_to_quit

\* C5: when a worker's pair shares neither side with its previous pair, the
\* cache is empty when the load of the primary starts, and holds nothing but
\* what that load put in when the load of the secondary starts.
SharesNeither(w) ==
    /\ prev[w] # <<>>
    /\ file1[w] # prev[w][1]
    /\ file2[w] # prev[w][2]

C5_CacheClearedBeforeLoads ==
    \A w \in Workers :
        /\ (wpc[w] = "load1" /\ SharesNeither(w)) => instruction_cache[w] = {}
        /\ (wpc[w] = "load2" /\ SharesNeither(w))
             => instruction_cache[w] \subseteq {file1[w]}

\* After a successful pair, the worker is about to load a pair sharing neither
\* side, with the cache empty.
C5_Witness ==
    \E w \in Workers :
        /\ wpc[w] = "load1"
        /\ SharesNeither(w)
        /\ result[w] = "ok"
        /\ slot1[w] = prev[w][1]
        /\ instruction_cache[w] = {}

\* C6 (as claimed): whenever the previous pair of the worker had the same
\* primary (secondary), the side is not read again, only reset.
C6_NoReloadOnSameSide ==
    \A w \in Workers :
        /\ (wpc[w] \in {"load2", "diff"} /\ prev[w] # <<>>
              /\ file1[w] = prev[w][1]) => did1[w] = "reset"
        /\ (wpc[w] = "diff" /\ prev[w] # <<>>
              /\ file2[w] = prev[w][2]) => did2[w] = "reset"

\* C6 (amended): when the previous pair of the worker completed without a
\* failure and had the same primary (secondary), the side is not read again,
\* only reset, and the slot still holds that program.
C6_NoReloadAfterSuccess ==
    \A w \in Workers :
        /\ (wpc[w] \in {"load2", "diff"} /\ prev[w] # <<>> /\ result[w] = "ok"
              /\ file1[w] = prev[w][1])
             => (did1[w] = "reset" /\ slot1[w] = file1[w])
        /\ (wpc[w] = "diff" /\ prev[w] # <<>> /\ result[w] = "ok"
              /\ file2[w] = prev[w][2])
             => (did2[w] = "reset" /\ slot2[w] = file2[w])

\* A worker has reset its primary for a pair with the primary of the pair it
\* completed before, and read the secondary.
C6_Witness ==
    \E w \in Workers :
        /\ wpc[w] = "diff"
        /\ prev[w] # <<>>
        /\ result[w] = "ok"
        /\ file1[w] = prev[w][1]
        /\ did1[w] = "reset"
        /\ did2[w] = "read"

\* C7: the first two SIGINTs set g_wants_to_quit and leave the process
\* running, the third one ends it, and after it nothing of BatchDiff or of a
\* worker changes.
C7_StagedInterrupt ==
    /\ [](/\ (signal_count < 3 => ~exited)
          /\ (signal_count >= 3 => exited)
          /\ (signal_count \in {1, 2} => g_wants_to_quit))
    /\ [][/\ (signal_count' # signal_count /\ signal_count' < 3)
               => (g_wants_to_quit' /\ UNCHANGED <<bvars, wvars, g_queue_mutex>>)
          /\ exited => UNCHANGED <<bvars, wvars>>
          /\ exited' => UNCHANGED <<bvars, wvars>>]_vars

\* The third SIGINT came while a worker was in the middle of a pair and
\* another one held the queue lock.
C7_Witness ==
    /\ exited
    /\ signal_count = 3
    /\ \E v, w \in Workers : wpc[v] = "diff" /\ wpc[w] = "front"

\* C8: in diff mode the report is printed at most once, only with every
\* thread returned and joined, and it has been printed when BatchDiff is done;
\* in export mode it is not printed.
C8_ReportAfterJoins ==
    /\ Len(reports) <= 1
    /\ reports # <<>> =>
         /\ ~flag_export
         /\ joined = num_threads
         /\ \A w \in 1..num_threads : wpc[w] = "done"
    /\ (mpc = "done" /\ ~flag_export) => Len(reports) = 1

\* The report is out after two workers of which one failed its last pair.
C8_Witness ==
    /\ Len(reports) = 1
    /\ num_threads = 2
    /\ result[1] = "failed"
    /\ result[2] = "ok"

\* C9: the seeded queue holds each ordered pair of distinct entries exactly
\* once (K * (K - 1) pairs); with a reference that is an entry, exactly the
\* K - 1 pairs with that primary; with no entry it is empty, no worker ever
\* holds a pair, and the report says 0.
Entries == Range(binexports)

C9_SeededPairs ==
    LET K == Len(binexports) IN
    mpc # "todo" =>
        /\ NoDup(seeded)
        /\ full_reference_file = "" =>
             /\ Len(seeded) = K * (K - 1)
             /\ Range(seeded) = {<<a, b>> : a \in Entries, b \in Entries}
                                  \ {<<a, a>> : a \in Entries}
        /\ \A r \in Entries :
             full_reference_file = JoinPath(full_path, r) =>
               /\ Len(seeded) = K - 1
               /\ Range(seeded) = {<<r, b>> : b \in Entries \ {r}}
        /\ K = 0 =>
             /\ seeded = <<>>
             /\ taken = <<>>
             /\ \A w \in Workers : wpc[w] \notin Processing
             /\ reports \in {<<>>, <<0>>}

\* Three entries and no reference: six pairs were seeded and reported.
C9_Witness ==
    /\ Len(binexports) = 3
    /\ full_reference_file = ""
    /\ Len(seeded) = 6
    /\ reports = <<6>>

\* The position of an entry in the enumeration.
Position(f) == CHOOSE i \in 1..Len(binexports) : binexports[i] = f

\* Row-major order of two pairs over the enumeration.
RowMajorBefore(p, q) ==
    \/ Position(p[1]) < Position(q[1])
    \/ Position(p[1]) = Position(q[1]) /\ Position(p[2]) < Position(q[2])

\* C17: the pairs the workers took, in the order of the pops, and the pairs
\* removed from the queue, are a prefix of the seeded order, which is
\* row-major over the enumeration.
C17_FifoRowMajor ==
    /\ Len(taken) <= Len(seeded)
    /\ taken = SubSeq(seeded, 1, Len(taken))
    /\ popped = taken
    /\ mpc # "todo" =>
         \A a, b \in 1..Len(seeded) :
           a < b => RowMajorBefore(seeded[a], seeded[b])

\* Both workers hold a pair and three of the six seeded pairs were popped.
C17_Witness ==
    /\ Len(seeded) = 6
    /\ Len(taken) = 3
    /\ \A w \in Workers : wpc[w] \in Processing

\* The positions of a worker between taking and giving up g_queue_mutex.
InCritical(w) == wpc[w] \in {"empty", "front", "popf"}

\* At most one worker is in the critical section, it holds the lock, and the
\* pair it read is still the front of a non-empty queue when it removes it.
MutualExclusion ==
    /\ Cardinality({w \in Workers : InCritical(w)}) <= 1
    /\ \A w \in Workers :
         /\ InCritical(w) => g_queue_mutex = w
         /\ wpc[w] \in {"front", "popf"} => files # <<>>
         /\ wpc[w] = "popf" => Pair(w) = Head(files)

\* A step that changes the queue after the first worker was started is the
\* pop_front() of the lock's holder.
QueueChangedUnderLock ==
    (started > 0 /\ files' # files) =>
      \E w \in Workers :
        /\ g_queue_mutex = w
        /\ wpc[w] = "popf"
        /\ wpc'[w] = "clear"
        /\ files' = Tail(files)

\* C18: at most one worker is in the critical section at any time; the empty
\* test, the read of the front and its removal are one atomic unit under
\* g_queue_mutex; once workers are started the queue only changes under it.
C18_CriticalSection == []MutualExclusion /\ [][QueueChangedUnderLock]_vars

\* A worker is about to remove the front while the other waits for the lock.
C18_Witness ==
    /\ started = 2
    /\ wpc[1] = "popf"
    /\ g_queue_mutex = 1
    /\ wpc[2] = "lock"
    /\ Len(taken) = 1

\* C19: while a worker processes the pair that follows a failed one (both
\* identifiers non-empty), the cache was empty when the load of the primary
\* started, and both sides are read again, never reset.
C19_FullReloadAfterFailure ==
    \A w \in Workers :
      (result[w] = "failed" /\ file1[w] # "" /\ file2[w] # "") =>
        /\ wpc[w] = "load1" => instruction_cache[w] = {}
        /\ wpc[w] = "load2" =>
             /\ did1[w] = "read"
             /\ slot1[w] = file1[w]
             /\ instruction_cache[w] = {file1[w]}
        /\ wpc[w] = "diff" =>
             /\ did1[w] = "read"
             /\ did2[w] = "read"
             /\ slot2[w] = file2[w]
             /\ instruction_cache[w] = {file1[w], file2[w]}

\* After a failed pair, a worker has read both sides of a pair with the same
\* primary again.
C19_Witness ==
    \E w \in Workers :
      /\ result[w] = "failed"
      /\ wpc[w] = "diff"
      /\ prev[w] # <<>>
      /\ prev[w][1] = file1[w]
      /\ did1[w] = "read"
      /\ did2[w] = "read"

\* The step of a worker over lines 281-284.
ClearStep(w) == wpc[w] = "clear" /\ wpc'[w] = "load1"

\* Whether either identifier of the pair equals either one of the previous pair.
SharesAny(w) ==
    /\ prev[w] # <<>>
    /\ {file1[w], file2[w]} \cap {prev[w][1], prev[w][2]} # {}

\* Whether the previous pair succeeded and has the same primary or the same
\* secondary.
SharesSameSide(w) ==
    /\ result[w] = "ok"
    /\ (file1[w] = prev[w][1] \/ file2[w] = prev[w][2])

\* C20 (as claimed): the cache is kept at the start of a pair whenever either
\* identifier equals either identifier of the worker's previous pair, and is
\* cleared only when neither does.
C20_KeptOnAnyMatch ==
    [][\A w \in Workers :
         ClearStep(w) =>
           /\ SharesAny(w) => instruction_cache'[w] = instruction_cache[w]
           /\ (instruction_cache[w] # {} /\ instruction_cache'[w] = {})
                => ~SharesAny(w)]_vars

\* C20 (amended): the cache is kept at the start of a pair exactly when the
\* worker's previous pair succeeded and has the same primary or the same
\* secondary; in every other case it is cleared.
C20_KeptOnSameSideAfterSuccess ==
    [][\A w \in Workers :
         ClearStep(w) =>
           instruction_cache'[w] =
             IF SharesSameSide(w) THEN instruction_cache[w] ELSE {}]_vars

\* A worker starts a pair with the primary of its previous, successful pair
\* and with that pair's cache.
C20_Witness ==
    \E w \in Workers :
      /\ wpc[w] = "load1"
      /\ result[w] = "ok"
      /\ prev[w][1] = file1[w]
      /\ instruction_cache[w] = {prev[w][1], prev[w][2]}

----------------------------------------------------------------------------
\* Properties of GetTruncatedFilename (under SpecName).

CallLength ==
    Len(name_call.path) + Len(name_call.part1) + Len(name_call.middle)
      + Len(name_call.part2) + Len(name_call.extension)

\* C4 (as claimed): a returned name is at most kMaxFilename characters long.
C4_ReturnedNameFits ==
    name_ret.state = "returned" => Len(name_ret.value) <= kMaxFilename

\* C10: when the concatenation is too long by no more than the difference of
\* the fragments' lengths, the call returns, the result is exactly
\* kMaxFilename long, the shorter fragment is whole and the longer one is cut
\* to a prefix that is not shorter than the other fragment.
C10_LongerFirst ==
    LET c == name_call
        l1 == Len(c.part1)
        l2 == Len(c.part2)
        overflow == CallLength - kMaxFilename
        diff == IF l1 > l2 THEN l1 - l2 ELSE l2 - l1
        p1 == IF l1 > l2 THEN SubSeq(c.part1, 1, l1 - overflow) ELSE c.part1
        p2 == IF l2 > l1 THEN SubSeq(c.part2, 1, l2 - overflow) ELSE c.part2
    IN  (name_ret.state # "none" /\ overflow > 0 /\ overflow <= diff) =>
          /\ name_ret.state = "returned"
          /\ Len(name_ret.value) = kMaxFilename
          /\ name_ret.value = c.path \o p1 \o c.middle \o p2 \o c.extension
          /\ Len(p1) >= Min(l1, l2)
          /\ Len(p2) >= Min(l1, l2)

\* A call that cut part1, the longer fragment, by a part of the difference.
C10_Witness ==
    /\ name_ret.state = "returned"
    /\ CallLength - kMaxFilename = 3
    /\ Len(name_call.part1) = Len(name_call.part2) + 5
    /\ Len(name_ret.value) = kMaxFilename

\* What is left of the overflow once the longer fragment is cut to the length
\* of the shorter one.
CallShorter == Min(Len(name_call.part1), Len(name_call.part2))

CallRemaining ==
    CallLength - kMaxFilename
      - (Max(Len(name_call.part1), Len(name_call.part2)) - CallShorter)

\* C11: when overflow remains after the longer fragment is cut to the length m
\* of the shorter one and the call returns, the result holds the prefixes of
\* part1 and of part2 of the same length m - remaining / 2 (rounded down).
C11_EqualTruncation ==
    LET c == name_call
        n == CallShorter - (CallRemaining \div 2)
    IN  (name_ret.state = "returned" /\ CallRemaining > 0) =>
          /\ n >= 1
          /\ name_ret.value = c.path \o SubSeq(c.part1, 1, n) \o c.middle
                                \o SubSeq(c.part2, 1, n) \o c.extension

\* A call with fragments of different lengths that lost characters of both.
C11_Witness ==
    /\ name_ret.state = "returned"
    /\ CallRemaining = 5
    /\ Len(name_call.part1) = 6
    /\ Len(name_call.part2) = 9

\* C12: the call throws whenever the overflow left after the first step asks
\* for more characters of a fragment (half of it, rounded up) than the
\* fragment then has.
C12_FailsWhenTooLong ==
    (name_ret.state # "none" /\ CallRemaining > 0
       /\ (CallRemaining + 1) \div 2 > CallShorter)
      => name_ret.state = "thrown"

\* A call that threw with non-empty fragments of different lengths.
C12_Witness ==
    /\ name_ret.state = "thrown"
    /\ Len(name_call.part1) = 3
    /\ CallShorter = 2
    /\ (CallRemaining + 1) \div 2 = 3

\* C13: when the five lengths add up to at most kMaxFilename, the call
\* returns the concatenation of its arguments.
C13_ShortNameUnmodified ==
    (name_ret.state # "none" /\ CallLength <= kMaxFilename) =>
      /\ name_ret.state = "returned"
      /\ name_ret.value = name_call.path \o name_call.part1 \o name_call.middle
                            \o name_call.part2 \o name_call.extension

\* A call whose arguments add up to exactly kMaxFilename, and returned whole.
C13_Witness ==
    /\ name_ret.state = "returned"
    /\ CallLength = kMaxFilename
    /\ Len(name_call.part1) = 4
    /\ Len(name_ret.value) = kMaxFilename

----------------------------------------------------------------------------
\* Properties of BinDiffMain and of the sink chains (under SpecMain).

\* C14: every chain Write() was called on is non-empty, holds the log sink
\* exactly if log output is configured, holds the database sink exactly if
\* binary output is configured or the chain has no other sink, and has the log
\* sink before the database sink.
C14_SinkChain ==
    \A i \in 1..Len(writes) :
      LET chain == writes[i]
          sinks == Range(chain)
      IN  /\ chain # <<>>
          /\ NoDup(chain)
          /\ "ResultsLogWriter" \in sinks <=> g_output_log
          /\ "DatabaseWriter" \in sinks
               <=> (g_output_binary \/ sinks \ {"DatabaseWriter"} = {})
          /\ sinks = {"ResultsLogWriter", "DatabaseWriter"}
               => chain = <<"ResultsLogWriter", "DatabaseWriter">>

\* Two jobs of a batch wrote through a log sink followed by a database sink.
C14_Witness ==
    /\ g_output_log
    /\ g_output_binary
    /\ writes = << <<"ResultsLogWriter", "DatabaseWriter">>,
                   <<"ResultsLogWriter", "DatabaseWriter">> >>
    /\ bpc = "job_msg"

\* How often a message is on the console.
Printed(message) ==
    Cardinality({i \in 1..Len(console) : console[i] = message})

\* C15 (as claimed): when a job of a batch ends with a failure of
\* GetTruncatedFilename, the metrics it computed were printed all the same:
\* every job that came to "Writing results" has its result message.
C15_MetricsReportedOnNamingFailure ==
    (bpc = "job_end" /\ console # <<>>
       /\ console[Len(console)] = "error: naming")
      => Printed("result") = Printed("Writing results")

\* The argument errors of a command line.
InvalidFormat ==
    \E i \in 1..Len(FLAGS.output_format) :
      AsciiStrToUpper(FLAGS.output_format[i]) \notin {"BIN", "BINARY", "LOG"}

ExtraPositional ==
    Len(positional) > (IF FLAGS.primary = "" THEN 1 ELSE 0)
                        + (IF FLAGS.secondary = "" THEN 1 ELSE 0)

MissingPrimary == FLAGS.primary = "" /\ positional = <<>>

OutputDirNotDirectory == fs.output_dir \in {"file", "none"}

ArgumentError ==
    InvalidFormat \/ ExtraPositional \/ MissingPrimary \/ OutputDirNotDirectory

\* Nothing was loaded, listed, diffed or written, and a finished run failed.
FailedFast ==
    /\ Range(effects) \subseteq {"StartUiWithOptions"}
    /\ ~call_graph1 /\ ~call_graph2 /\ writes = <<>>
    /\ bpc \in {"return", "exited"} => status \notin {"none", "Ok"}
    /\ bpc = "exited" => exit_status = "EXIT_FAILURE"

\* C16 (as claimed): with an argument error nothing is ever loaded, queued or
\* started, BinDiffMain returns a status that is not OK and main returns
\* EXIT_FAILURE.
C16_ArgumentErrorsFailFast == ArgumentError => FailedFast

\* C16 (amended): the same, unless the UI is launched.
C16_ArgumentErrorsFailFastWithoutUi ==
    (~FLAGS.ui /\ ArgumentError) => FailedFast

\* A run with an unknown output format and a primary ended with EXIT_FAILURE
\* and nothing done.
C16_Witness ==
    /\ ~FLAGS.ui
    /\ InvalidFormat
    /\ FLAGS.primary = "a"
    /\ status = "InvalidArgument"
    /\ exit_status = "EXIT_FAILURE"
    /\ effects = <<>>

----------------------------------------------------------------------------
\* Further properties of GetTruncatedFilename (under SpecName).

\* The length of what is never cut: path, middle and extension.
CallFixed ==
    Len(name_call.path) + Len(name_call.middle) + Len(name_call.extension)

\* C25: a call whose fixed parts are shorter than kMaxFilename returns,
\* whatever the fragments, and a call whose fixed parts are longer than
\* kMaxFilename throws.
C25_FixedPartsDecide ==
    name_ret.state # "none" =>
      /\ CallFixed < kMaxFilename => name_ret.state = "returned"
      /\ CallFixed > kMaxFilename => name_ret.state = "thrown"

\* A call that needed both cuts with fixed parts one below the limit returned
\* with one character of each fragment.
C25_Witness ==
    /\ name_ret.state = "returned"
    /\ CallFixed = kMaxFilename - 1
    /\ Len(name_call.part1) = 7
    /\ Len(name_call.part2) = 4
    /\ Len(name_ret.value) = kMaxFilename + 1

\* C27: a returned name is path, a prefix of part1, middle, a prefix of part2
\* and extension, in that order.
C27_OnlyFragmentEndsCut ==
    name_ret.state = "returned" =>
      \E a \in 0..Len(name_call.part1), b \in 0..Len(name_call.part2) :
        name_ret.value = name_call.path \o SubSeq(name_call.part1, 1, a)
                           \o name_call.middle \o SubSeq(name_call.part2, 1, b)
                           \o name_call.extension

\* A call that cut both fragments, the longer one more.
C27_Witness ==
    /\ name_ret.state = "returned"
    /\ Len(name_call.part1) = 8
    /\ Len(name_call.part2) = 5
    /\ CallRemaining = 4
    /\ Len(name_ret.value) = kMaxFilename

----------------------------------------------------------------------------
\* Further properties of the worker pool (under Spec).

\* A worker leaves its loop in this step.
LeavesLoop(w) == wpc[w] # "done" /\ wpc'[w] = "done"

\* C22: once g_wants_to_quit is set a worker pops at most once more, only
\* started workers pop, and a worker leaves its loop only at the test of an
\* empty queue or at the loop test after a stop request: a worker that starts
\* after the request with a pair in the queue takes it.
C22_OnePopPerWorkerAfterStop ==
    /\ [](\A w \in Workers :
            /\ pops_after_quit[w] <= 1
            /\ pops_after_quit[w] > 0 => w <= num_threads)
    /\ [][\A w \in Workers :
            LeavesLoop(w) =>
              \/ wpc[w] = "empty" /\ files = <<>>
              \/ wpc[w] = "while" /\ g_wants_to_quit]_vars

\* Both workers have left the loop after one pair each, and every pair that
\* was taken was taken after the stop request.
C22_Witness ==
    /\ g_wants_to_quit
    /\ Len(seeded) = 6
    /\ Len(taken) = 2
    /\ \A w \in Workers :
         /\ pops_after_quit[w] = 1
         /\ wpc[w] = "done"
         /\ result[w] # "none"

\* C24: the number of the report is the number of pairs seeded, whatever was
\* taken, failed or left in the queue.
C24_ReportCountsSeeded ==
    /\ \A i \in 1..Len(reports) : reports[i] = Len(seeded)
    /\ mpc \in {"join", "report", "done"} /\ ~flag_export
         => num_diffed = Len(seeded)

\* The report says six with pairs left in the queue after a stop request and
\* a failed pair.
C24_Witness ==
    /\ reports = <<6>>
    /\ files # <<>>
    /\ g_wants_to_quit
    /\ \E w \in Workers : result[w] = "failed"

\* The positions of a worker outside the loads and the diff of an iteration.
BetweenJobs == {"idle", "lock", "empty", "front", "popf", "clear", "while", "done"}

\* C23: when a worker comes to Diff its primary slot holds the program of
\* file1 and its secondary slot the program of file2, and outside the loads a
\* non-empty tracked identifier names the program its slot holds.
C23_SlotsMatchIdentifiers ==
    \A w \in Workers :
      /\ wpc[w] = "diff" =>
           /\ slot1[w] = file1[w]
           /\ slot2[w] = file2[w]
      /\ wpc[w] \in BetweenJobs =>
           /\ last_file1[w] # "" => slot1[w] = last_file1[w]
           /\ last_file2[w] # "" => slot2[w] = last_file2[w]

\* A worker comes to Diff with a primary kept from its previous pair and a
\* secondary it has just read.
C23_Witness ==
    \E w \in Workers :
      /\ wpc[w] = "diff"
      /\ result[w] = "ok"
      /\ did1[w] = "reset"
      /\ did2[w] = "read"
      /\ slot1[w] = prev[w][1]
      /\ slot2[w] # prev[w][2]

\* The batch has a reference that is an entry of the directory.
FixedReference ==
    \E r \in Entries : full_reference_file = JoinPath(full_path, r)

\* C26: with a reference that is an entry, a worker whose previous pair did
\* not fail reads the primary at its first pair only, never clears its cache
\* after a pair, and its cache only grows: after a read of a secondary it
\* holds that secondary with all it held before.
C26_CacheGrowsInReferenceMode ==
    /\ [](FixedReference =>
            \A w \in Workers :
              /\ (result[w] = "ok" /\ wpc[w] \in {"load2", "diff"})
                   => did1[w] = "reset"
              /\ (result[w] = "none" /\ wpc[w] \in {"load2", "diff"})
                   => did1[w] = "read"
              /\ (result[w] = "ok" /\ wpc[w] \in Processing \cup BetweenJobs)
                   => {prev[w][1], prev[w][2]} \subseteq instruction_cache[w])
    /\ [][FixedReference =>
            \A w \in Workers :
              result[w] # "failed" =>
                /\ (wpc[w] = "clear" /\ result[w] = "ok")
                     => instruction_cache'[w] = instruction_cache[w]
                /\ instruction_cache[w] \subseteq instruction_cache'[w]
                /\ (wpc[w] = "load2" /\ wpc'[w] = "diff")
                     => instruction_cache'[w]
                          = instruction_cache[w] \cup {file2[w]}]_vars

\* One worker is at the diff of the second pair of a batch of three entries:
\* the reference was read once and the cache holds all three programs.
C26_Witness ==
    /\ FixedReference
    /\ Len(seeded) = 2
    /\ \E w \in Workers :
         /\ wpc[w] = "diff"
         /\ result[w] = "ok"
         /\ did1[w] = "reset"
         /\ instruction_cache[w] = Entries

----------------------------------------------------------------------------
\* Termination of the worker pool (under SpecLive).

\* BatchDiff returns unless the process is ended by the third SIGINT, and when
\* the joins have returned every started worker has left its loop.
JoinsReturn ==
    /\ <>(exited \/ mpc = "done")
    /\ [](AllJoined => \A w \in 1..num_threads : wpc[w] = "done")

\* C21 (as claimed): the joins return, and with no stop request the queue is
\* empty when they have returned.
C21_TerminatesAndDrains ==
    /\ JoinsReturn
    /\ []((AllJoined /\ ~g_wants_to_quit) => files = <<>>)

\* C21 (amended): the same, with the queue empty if there is at least one
\* worker.
C21_TerminatesAndDrainsWithWorkers ==
    /\ JoinsReturn
    /\ []((AllJoined /\ ~g_wants_to_quit /\ num_threads >= 1) => files = <<>>)

\* BatchDiff is done after a stop request that left a pair in the queue: the
\* only worker finished the pair it held and left its loop.
C21_Witness ==
    /\ mpc = "done"
    /\ ~exited
    /\ g_wants_to_quit
    /\ num_threads = 1
    /\ files # <<>>
    /\ wpc[1] = "done"
    /\ prev[1] # <<>>
    /\ reports # <<>>

====
